---------------------------- MODULE Spec2Model ----------------------------
(***************************************************************************)
(* Model of tdda/referencetest/checkgeopandas.py: GeoPandasComparison.     *)
(*                                                                         *)
(* A dataset is [cols, dtype, rows]: the ordered column names, the dtype   *)
(* of each column and the rows in positional order.  Numbers are           *)
(* fixed-point integers in units of 10^-Digits; a missing value (NaN) is   *)
(* the sentinel Null.  A call either returns or raises; ret.raised names   *)
(* the exception class ("" when the call returned).                        *)
(***************************************************************************)
EXTENDS Integers, Sequences, FiniteSets, TLC

VARIABLES
    pc,              \* position of the caller
    gdf,             \* the caller's actual dataset object
    ref_gdf,         \* the caller's expected dataset object
    opts,            \* the keyword arguments of the call
    msgs,            \* the Diffs log
    ret,             \* outcome of check_geodataframe / differences
    actual_paths,    \* check_parquet_files: actual_paths
    expected_paths,  \* check_parquet_files: expected_paths
    idx,             \* check_parquet_files: pairs consumed from the zip
    failures,        \* check_parquet_files: failures
    hist,            \* per pair: what the pair did (observation only)
    values,          \* differences: values
    ref_values       \* differences: ref_values

vars == <<pc, gdf, ref_gdf, opts, msgs, ret, actual_paths, expected_paths,
          idx, failures, hist, values, ref_values>>

---------------------------------------------------------------------------
(* Bounds of the model *)

MaxRows == 2      \* rows of a dataset passed to check_geodataframe
Digits == 2       \* decimal digits kept by the fixed-point values
MaxPairs == 2     \* file pairs handed to check_parquet_files
MaxTail == 3      \* rows after the sampling window in differences' inputs

(* Program constants *)

DefaultPrecision == 6
limit == 10

---------------------------------------------------------------------------
(* Values *)

Null == -1
isnull(v) == v = Null

RECURSIVE Pow10(_)
Pow10(n) == IF n <= 0 THEN 1 ELSE 10 * Pow10(n - 1)

Scale == Pow10(Digits)

Range(s) == {s[i] : i \in DOMAIN s}
Min(a, b) == IF a < b THEN a ELSE b

\* Python's v1 != v2 on cell values: NaN is unequal to everything, itself included
PyNe(v1, v2) == isnull(v1) \/ isnull(v2) \/ v1 # v2

\* numpy round to `precision` decimals, half to even, on a fixed-point value
round(v, precision) ==
    IF isnull(v) \/ precision >= Digits THEN v
    ELSE LET q == Pow10(Digits - precision)
             r == v % q
             base == v - r
         IN  IF 2 * r < q THEN base
             ELSE IF 2 * r > q THEN base + q
             ELSE IF (base \div q) % 2 = 0 THEN base ELSE base + q

---------------------------------------------------------------------------
(* Datasets *)

list(d) == d.cols
len(d) == Len(d.rows)
HasCol(d, c) == c \in Range(d.cols)
Column(d, c) == [dtype |-> d.dtype[c],
                 vals |-> [i \in 1..Len(d.rows) |-> d.rows[i][c]]]

\* gdf[names] for names that are all present
Project(d, names) ==
    [cols |-> names,
     dtype |-> [c \in Range(names) |-> d.dtype[c]],
     rows |-> [i \in 1..Len(d.rows) |-> [c \in Range(names) |-> d.rows[i][c]]]]

\* DataFrame.round(precision): floating-point columns only
RoundFrame(d, precision) ==
    [d EXCEPT !.rows = [i \in 1..Len(d.rows) |->
        [c \in Range(d.cols) |->
            IF d.dtype[c] = "float64" THEN round(d.rows[i][c], precision)
            ELSE d.rows[i][c]]]]

\* Series.equals: same dtype, same length, same values, NaN equal to NaN
ColEquals(x, y) ==
    /\ x.dtype = y.dtype
    /\ Len(x.vals) = Len(y.vals)
    /\ \A i \in 1..Len(x.vals) :
          \/ isnull(x.vals[i]) /\ isnull(y.vals[i])
          \/ ~isnull(x.vals[i]) /\ ~isnull(y.vals[i]) /\ x.vals[i] = y.vals[i]

\* DataFrame.equals on two frames with the same column labels
FrameEquals(d, e) ==
    /\ d.cols = e.cols
    /\ Len(d.rows) = Len(e.rows)
    /\ \A c \in Range(d.cols) : ColEquals(Column(d, c), Column(e, c))

\* the order of sort_values(sortby): left-to-right, ascending, NaN last
RECURSIVE RowLess(_, _, _)
RowLess(r1, r2, by) ==
    IF by = <<>> THEN FALSE
    ELSE LET c == Head(by)
             a == r1[c]
             b == r2[c]
         IN  IF a = b THEN RowLess(r1, r2, Tail(by))
             ELSE IF isnull(a) THEN FALSE
             ELSE IF isnull(b) THEN TRUE
             ELSE a < b

RECURSIVE InsertRow(_, _, _)
InsertRow(r, sorted, by) ==
    IF sorted = <<>> THEN <<r>>
    ELSE IF RowLess(r, Head(sorted), by) THEN <<r>> \o sorted
    ELSE <<Head(sorted)>> \o InsertRow(r, Tail(sorted), by)

RECURSIVE SortRows(_, _)
SortRows(rows, by) ==
    IF rows = <<>> THEN <<>>
    ELSE InsertRow(rows[Len(rows)], SortRows(SubSeq(rows, 1, Len(rows) - 1), by), by)

\* d.sort_values(sortby, inplace=True): the object d itself is reordered
sort_values(d, by) == [d EXCEPT !.rows = SortRows(d.rows, by)]

---------------------------------------------------------------------------
(* Option flags *)

FNone == [shape |-> "None", names |-> <<>>]
FTrue == [shape |-> "True", names |-> <<>>]
FFalse == [shape |-> "False", names |-> <<>>]
FList(names) == [shape |-> "list", names |-> names]
\* the callable made by all_fields_except(exclusions)
FExcept(names) == [shape |-> "callable", names |-> names]

all_fields_except(exclusions, d) ==
    SelectSeq(list(d), LAMBDA c : c \notin Range(exclusions))

resolve_option_flag(flag, d) ==
    IF flag.shape \in {"None", "True"} THEN list(d)
    ELSE IF flag.shape = "False" THEN <<>>
    ELSE IF flag.shape = "callable" THEN all_fields_except(flag.names, d)
    ELSE flag.names

\* Python truth value of the flag as passed
Truthy(flag) ==
    \/ flag.shape \in {"True", "callable"}
    \/ flag.shape = "list" /\ flag.names # <<>>

\* the condition argument: None, or a function giving the rows to keep
CondNone == [kind |-> "None", col |-> ""]
CondAbove(c) == [kind |-> "above", col |-> c]

\* gdf[condition(gdf)]: the rows whose cell in condition.col exceeds 1
ApplyCondition(cond, d) ==
    [d EXCEPT !.rows = SelectSeq(d.rows,
        LAMBDA r : ~isnull(r[cond.col]) /\ r[cond.col] > Scale)]

---------------------------------------------------------------------------
(* Messages of the Diffs log *)

Msg(text) == [text |-> text, names |-> <<>>, nums |-> <<>>,
              vals |-> <<>>, refvals |-> <<>>, dots |-> <<>>]
MsgNames(text, names) == [Msg(text) EXCEPT !.names = names]
MsgNums(text, nums) == [Msg(text) EXCEPT !.nums = nums]

\* Diffs(): a new, empty log
Diffs == <<>>

\* a log the caller already holds, with a message of an earlier comparison
EarlierLog == <<Msg("earlier")>>

\* failure as it would be were it to write into a new log
failure_fresh(log, s, actual_path, expected_path) ==
    IF actual_path # "" /\ expected_path # ""
    THEN <<MsgNames("Compare with:", <<actual_path, expected_path>>), Msg(s)>>
    ELSE <<Msg(s)>>

\* failure(msgs, s, actual_path, expected_path)
failure(log, s, actual_path, expected_path) ==
    LET withpaths ==
            IF actual_path # "" /\ expected_path # ""
            THEN Append(log, MsgNames("Compare with:", <<actual_path, expected_path>>))
            ELSE IF expected_path # ""
            THEN Append(log, MsgNames("Expected file", <<expected_path>>))
            ELSE IF actual_path # ""
            THEN Append(log, MsgNames("Actual file", <<actual_path>>))
            ELSE log
    IN  Append(withpaths, Msg(s))

---------------------------------------------------------------------------
(* differences, sample, sample_format, ndifferences *)

\* values[i] for the 0-based row i of a column
At(col, i) == col.vals[i + 1]

SetMin(S) == CHOOSE m \in S : \A x \in S : m <= x

ndifferences(values1, values2, start) ==
    LET stop == Min(start + limit, Len(values1.vals))
        same == {i \in start..(stop - 1) :
                    \/ ~PyNe(At(values1, i), At(values2, i))
                    \/ isnull(At(values1, i)) /\ isnull(At(values2, i))}
    IN  IF same # {} THEN SetMin(same) ELSE stop

sample(col, start, stop) ==
    [k \in 1..(IF stop > start THEN stop - start ELSE 0) |->
        IF isnull(At(col, start + k - 1)) THEN Null ELSE At(col, start + k - 1)]

\* one value of the sample as sample_format prints it
Render(v, dtype, precision) ==
    IF isnull(v) THEN [fmt |-> "null", v |-> Null, p |-> 0]
    ELSE IF dtype = "int64" THEN [fmt |-> "%d", v |-> v, p |-> 0]
    ELSE IF dtype = "float64" THEN [fmt |-> "%.*f", v |-> round(v, precision), p |-> precision]
    ELSE [fmt |-> "str", v |-> v, p |-> 0]

\* the printed items of the sample s, and whether " ..." was appended
format_items(s, dtype, start, stop, precision) ==
    [items |-> [k \in 1..Len(s) |-> Render(s[k], dtype, precision)],
     dots |-> Len(s) < stop - start]

sample_format(col, start, stop, precision) ==
    format_items(sample(col, start, stop), col.dtype, start, stop, precision)

\* lines 226-233: the summary from the first differing row i
summary(name, vals, refs, precision, i, stop) ==
    [Msg("From row") EXCEPT
        !.names = <<name>>,
        !.nums = <<i + 1>>,
        !.vals = sample_format(vals, i, stop, precision).items,
        !.refvals = sample_format(refs, i, stop, precision).items,
        !.dots = <<sample_format(vals, i, stop, precision).dots,
                   sample_format(refs, i, stop, precision).dots>>]

\* line 225 as it would be without its isnull clause
differing_rows_plain(vals, refs) ==
    {i \in 0..(Len(vals.vals) - 1) : PyNe(At(vals, i), At(refs, i))}

\* the rows at which line 225 holds
differing_rows(vals, refs) ==
    {i \in 0..(Len(vals.vals) - 1) :
        /\ PyNe(At(vals, i), At(refs, i))
        /\ ~(isnull(At(vals, i)) /\ isnull(At(refs, i)))}

first_difference(name, vals, refs, precision, i) ==
    summary(name, vals, refs, precision, i, ndifferences(vals, refs, i))

differences(name, vals, refs, precision) ==
    IF differing_rows(vals, refs) # {}
    THEN first_difference(name, vals, refs, precision,
                          SetMin(differing_rows(vals, refs)))
    ELSE IF vals.dtype # refs.dtype THEN Msg("Different types")
    ELSE Msg("But mysteriously appear to be identical!")

---------------------------------------------------------------------------
(* check_geodataframe *)

\* lines 126-147: the schema axes, or the exception the block raises
schema_check(g, r, o) ==
    LET check_types == resolve_option_flag(o.check_types, r)
        check_extra_cols == resolve_option_flag(o.check_extra_cols, g)
        missing_cols == SelectSeq(check_types, LAMBDA c : ~HasCol(g, c))
        \* ref_gdf[c] for a column of check_types that gdf has and ref_gdf lacks
        badref == \E i \in DOMAIN check_types :
                     HasCol(g, check_types[i]) /\ ~HasCol(r, check_types[i])
        wrong_types == SelectSeq(check_types,
            LAMBDA c : HasCol(g, c) /\ HasCol(r, c) /\ g.dtype[c] # r.dtype[c])
        check_order == resolve_option_flag(o.check_order, r)
        c1 == SelectSeq(list(g), LAMBDA c : c \in Range(check_order))
        c2 == SelectSeq(list(r), LAMBDA c : c \in Range(check_order))
        wrong_ordering ==
            IF o.check_order.shape # "False" /\ missing_cols = <<>>
            THEN c1 # c2 ELSE FALSE
    IN  [raised |-> IF badref THEN "KeyError"
                    \* line 141 reads ref_df, a name bound nowhere
                    ELSE IF check_extra_cols # <<>> THEN "NameError"
                    ELSE "",
         check_types |-> check_types,
         missing_cols |-> missing_cols,
         extra_cols |-> <<>>,
         wrong_types |-> wrong_types,
         wrong_ordering |-> wrong_ordering,
         same |-> /\ missing_cols = <<>>
                  /\ wrong_types = <<>>
                  /\ ~wrong_ordering]

\* lines 163-172: the explanation of a wrong ordering
ordermsg(g, r, check_types) ==
    LET c1 == SelectSeq(list(g), LAMBDA c : c \in Range(check_types))
        c2 == SelectSeq(list(r), LAMBDA c : c \in Range(check_types))
        hit == {i \in 1..Len(c1) : i > Len(c2) \/ c1[i] # c2[i]}
    IN  IF hit = {}
        THEN Msg("Wrong column ordering: mysterious difference, they appear to be the same!")
        ELSE LET i == SetMin(hit)
             IN  IF i > Len(c2)
                 THEN Msg("Wrong column ordering: not enough columns")
                 ELSE MsgNames("Wrong column ordering: found, expected", <<c1[i], c2[i]>>)

\* a failed column check as it would be were lines 150-173 to write nothing
schema_report_silent(log, sc, g, r, o) == log

\* lines 149-173: the messages of a failed column check
schema_report(log, sc, g, r, o) ==
    IF sc.same THEN log
    ELSE failure(log, "Column check failed.", o.actual_path, o.expected_path)
         \o (IF sc.missing_cols # <<>>
             THEN <<MsgNames("Missing columns:", sc.missing_cols)>> ELSE <<>>)
         \o (IF sc.extra_cols # <<>>
             THEN <<MsgNames("Extra columns:", sc.extra_cols)>> ELSE <<>>)
         \o [k \in 1..Len(sc.wrong_types) |->
                MsgNames("Wrong column type",
                         <<sc.wrong_types[k], g.dtype[sc.wrong_types[k]],
                           r.dtype[sc.wrong_types[k]]>>)]
         \o (IF sc.wrong_ordering THEN <<ordermsg(g, r, sc.check_types)>> ELSE <<>>)

\* lines 175-181: sorting acts on the objects the caller passed
sort_step(g, r, o, missing_cols) ==
    IF ~Truthy(o.sortby) THEN [raised |-> "", gdf |-> g, ref_gdf |-> r]
    ELSE LET sortby == resolve_option_flag(o.sortby, r)
         IN  IF \E i \in DOMAIN missing_cols : missing_cols[i] \in Range(sortby)
             \* line 178 calls info with the text alone
             THEN [raised |-> "TypeError", gdf |-> g, ref_gdf |-> r]
             ELSE IF \E c \in Range(sortby) : ~HasCol(g, c)
             THEN [raised |-> "KeyError", gdf |-> g, ref_gdf |-> r]
             ELSE IF \E c \in Range(sortby) : ~HasCol(r, c)
             THEN [raised |-> "KeyError", gdf |-> sort_values(g, sortby), ref_gdf |-> r]
             ELSE [raised |-> "", gdf |-> sort_values(g, sortby),
                   ref_gdf |-> sort_values(r, sortby)]

\* lines 183-185: filtering rebinds the local names to new frames
filter_step(g, r, o) ==
    IF o.condition.kind = "None" THEN [raised |-> "", gdf |-> g, ref_gdf |-> r]
    ELSE IF ~HasCol(g, o.condition.col) \/ ~HasCol(r, o.condition.col)
    THEN [raised |-> "KeyError", gdf |-> g, ref_gdf |-> r]
    ELSE [raised |-> "", gdf |-> ApplyCondition(o.condition, g),
          ref_gdf |-> ApplyCondition(o.condition, r)]

\* lines 208-214: two messages per differing column
column_diffs(names, rounded, ref_rounded, precision) ==
    LET differing == SelectSeq(names,
            LAMBDA c : ~ColEquals(Column(rounded, c), Column(ref_rounded, c)))
    IN  [k \in 1..(2 * Len(differing)) |->
            IF k % 2 = 1
            THEN MsgNames("Column values differ:", <<differing[(k + 1) \div 2]>>)
            ELSE differences(differing[k \div 2],
                             Column(rounded, differing[k \div 2]),
                             Column(ref_rounded, differing[k \div 2]), precision)]

\* lines 197-214: compare the rounded projections
compare_rounded(log, rounded, ref_rounded, o, precision) ==
    IF FrameEquals(rounded, ref_rounded)
    THEN [raised |-> "", same |-> TRUE, msgs |-> log]
    ELSE [raised |-> "", same |-> FALSE,
          msgs |-> failure(log, "Contents check failed.",
                           o.actual_path, o.expected_path)
                   \o column_diffs(list(ref_rounded), rounded, ref_rounded, precision)]

\* lines 194-196: drop the missing columns and project both frames
project_data(log, g, r, o, check_data, precision) ==
    IF \E c \in Range(check_data) : ~HasCol(g, c) \/ ~HasCol(r, c)
    THEN [raised |-> "KeyError", same |-> TRUE, msgs |-> log]
    ELSE compare_rounded(log, RoundFrame(Project(g, check_data), precision),
                         RoundFrame(Project(r, check_data), precision), o, precision)

\* lines 187-214: the length check and the content check
length_content(log, g, r, o, missing_cols, precision) ==
    IF len(g) # len(r)
    THEN [raised |-> "", same |-> FALSE,
          msgs |-> Append(failure(log, "Length check failed.",
                                  o.actual_path, o.expected_path),
                          MsgNums("Found records, expected", <<len(g), len(r)>>))]
    ELSE IF resolve_option_flag(o.check_data, r) = <<>>
    THEN [raised |-> "", same |-> TRUE, msgs |-> log]
    ELSE project_data(log, g, r, o,
                      SelectSeq(resolve_option_flag(o.check_data, r),
                                LAMBDA c : c \notin Range(missing_cols)),
                      precision)

\* the verdict as it would be were line 216 to leave the schema axes out
verdict_content_only(same, sc) == IF same THEN 0 ELSE 1

\* line 216-217: the verdict
verdict(same, sc) ==
    IF same /\ ~(\/ sc.missing_cols # <<>>
                 \/ sc.extra_cols # <<>>
                 \/ sc.wrong_types # <<>>
                 \/ sc.wrong_ordering)
    THEN 0 ELSE 1

\* what a call leaves behind: the exception or the result, the log, the
\* caller's two objects, and how far the call got
Outcome(raised, n, log, g, r, phase, same, sc) ==
    [raised |-> raised, n |-> n, msgs |-> log, gdf |-> g, ref_gdf |-> r,
     phase |-> phase, same |-> same, schema |-> sc]

\* lines 187-217 after sorting (st) and filtering (ft)
finish(sc, st, lc) ==
    IF lc.raised # ""
    THEN Outcome(lc.raised, Null, lc.msgs, st.gdf, st.ref_gdf, "content", FALSE, sc)
    ELSE Outcome("", verdict(lc.same, sc), lc.msgs, st.gdf, st.ref_gdf, "done",
                 lc.same, sc)

after_filter(o, log, precision, sc, st, ft) ==
    IF ft.raised # ""
    THEN Outcome(ft.raised, Null, log, st.gdf, st.ref_gdf, "filter", FALSE, sc)
    ELSE finish(sc, st, length_content(log, ft.gdf, ft.ref_gdf, o,
                                       sc.missing_cols, precision))

after_sort(o, log, precision, sc, st) ==
    IF st.raised # ""
    THEN Outcome(st.raised, Null, log, st.gdf, st.ref_gdf, "sort", FALSE, sc)
    ELSE after_filter(o, log, precision, sc, st, filter_step(st.gdf, st.ref_gdf, o))

after_schema(g, r, o, log, precision, sc) ==
    IF sc.raised # ""
    THEN Outcome(sc.raised, Null, log, g, r, "schema", FALSE, sc)
    ELSE after_sort(o, schema_report(log, sc, g, r, o), precision, sc,
                    sort_step(g, r, o, sc.missing_cols))

\* the outcome of check_geodataframe(gdf, ref_gdf, **opts, msgs=log)
check_geodataframe(g, r, o, log) ==
    after_schema(g, r, o, IF o.msgs = "None" THEN Diffs ELSE log,
                 IF o.precision = Null THEN DefaultPrecision ELSE o.precision,
                 schema_check(g, r, o))

---------------------------------------------------------------------------
(* Inputs of check_geodataframe: an expected dataset, and an actual dataset
   that differs from it by at most one change of schema and one of data *)

Empty == [cols |-> <<>>, dtype |-> <<>>, rows |-> <<>>]

BaseCell(c, i, dtype) == IF dtype = "float64" THEN i * Scale + 4 ELSE i * Scale

\* n rows in ascending order of every column
Base(cols, btype, n) ==
    LET dt == [c \in Range(cols) |-> IF c = "b" THEN btype ELSE "int64"]
    IN  [cols |-> cols, dtype |-> dt,
         rows |-> [i \in 1..n |-> [c \in Range(cols) |-> BaseCell(c, i, dt[c])]]]

Reverse(rows) == [i \in 1..Len(rows) |-> rows[Len(rows) + 1 - i]]

IsFloat(d, c) == HasCol(d, c) /\ d.dtype[c] = "float64"

SetCell(d, i, c, v) == [d EXCEPT !.rows[i][c] = v]

DataEdits == {"same", "drop_last", "reverse", "bump_last", "nudge_last",
              "null_first", "bump_first"}

DataEdit(e, d) ==
    LET n == Len(d.rows)
    IN  IF n = 0 \/ e = "same" THEN d
        ELSE IF e = "drop_last" THEN [d EXCEPT !.rows = SubSeq(d.rows, 1, n - 1)]
        ELSE IF e = "reverse" THEN [d EXCEPT !.rows = Reverse(d.rows)]
        ELSE IF ~HasCol(d, "b") THEN d
        ELSE IF e = "bump_last"
        THEN SetCell(d, n, "b", d.rows[n]["b"] + (IF IsFloat(d, "b") THEN 2 ELSE Scale))
        ELSE IF e = "bump_first"
        THEN SetCell(d, 1, "b", d.rows[1]["b"] + (IF IsFloat(d, "b") THEN 2 ELSE Scale))
        ELSE IF e = "nudge_last" /\ IsFloat(d, "b")
        THEN SetCell(d, n, "b", d.rows[n]["b"] + 1)
        ELSE IF e = "null_first" /\ IsFloat(d, "b")
        THEN SetCell(d, 1, "b", Null)
        ELSE d

SchemaEdits == {"same", "drop_a", "drop_b", "swap", "retype_b", "add_c"}

DropCol(d, c) ==
    IF ~HasCol(d, c) THEN d
    ELSE LET keep == SelectSeq(d.cols, LAMBDA x : x # c)
         IN  IF keep = <<>> THEN Empty ELSE Project(d, keep)

SchemaEdit(e, d) ==
    IF e = "drop_a" THEN DropCol(d, "a")
    ELSE IF e = "drop_b" THEN DropCol(d, "b")
    ELSE IF e = "swap" THEN Project(d, Reverse(d.cols))
    ELSE IF e = "retype_b" /\ HasCol(d, "b")
    THEN [cols |-> d.cols,
          dtype |-> [d.dtype EXCEPT !["b"] = IF @ = "int64" THEN "float64" ELSE "int64"],
          rows |-> [i \in 1..Len(d.rows) |->
                      [d.rows[i] EXCEPT !["b"] = IF isnull(@) THEN 0 ELSE @ - (@ % Scale)]]]
    ELSE IF e = "add_c" /\ d.cols # <<>>
    THEN [cols |-> Append(d.cols, "c"),
          dtype |-> [x \in Range(d.cols) \cup {"c"} |->
                        IF x = "c" THEN "int64" ELSE d.dtype[x]],
          rows |-> [i \in 1..Len(d.rows) |->
                      [x \in Range(d.cols) \cup {"c"} |->
                          IF x = "c" THEN i * Scale ELSE d.rows[i][x]]]]
    ELSE d

RefDatasets ==
    {Empty}
    \cup {DataEdit(e, Base(cols, bt, n)) :
            e \in {"same", "reverse", "null_first"},
            cols \in {<<"a">>, <<"a", "b">>},
            bt \in {"int64", "float64"},
            n \in 0..MaxRows}

Options ==
    [check_data : {FNone, FList(<<"a">>)},
     check_types : {FNone, FFalse, FList(<<"a">>)},
     check_order : {FNone, FFalse},
     check_extra_cols : {FNone, FFalse},
     sortby : {FNone, FList(<<"a">>)},
     condition : {CondNone, CondAbove("a")},
     precision : {Null, Digits - 1},
     actual_path : {""},
     expected_path : {""},
     msgs : {"None", "given"}]

Defaults ==
    [check_data |-> FNone, check_types |-> FNone, check_order |-> FNone,
     check_extra_cols |-> FNone, sortby |-> FNone, condition |-> CondNone,
     precision |-> Null, actual_path |-> "", expected_path |-> "",
     msgs |-> "None"]

NoRet == [raised |-> "", n |-> Null, phase |-> "", same |-> FALSE,
          schema |-> schema_check(Empty, Empty, Defaults)]

---------------------------------------------------------------------------
(* The caller of check_geodataframe *)

InitCheck ==
    /\ pc = "call"
    /\ \E r \in RefDatasets, se \in SchemaEdits, de \in DataEdits :
          /\ ref_gdf = r
          /\ gdf = DataEdit(de, SchemaEdit(se, r))
    /\ opts \in Options
    /\ msgs = IF opts.msgs = "None" THEN Diffs ELSE EarlierLog
    /\ ret = NoRet
    /\ actual_paths = <<>>
    /\ expected_paths = <<>>
    /\ idx = 0
    /\ failures = 0
    /\ hist = <<>>
    /\ values = <<>>
    /\ ref_values = <<>>

\* the call returns or raises: the caller sees its two objects and its log
Returned(out) ==
    /\ gdf' = out.gdf
    /\ ref_gdf' = out.ref_gdf
    /\ msgs' = out.msgs
    /\ ret' = [raised |-> out.raised, n |-> out.n, phase |-> out.phase,
               same |-> out.same, schema |-> out.schema]

CheckGeodataframe ==
    /\ pc = "call"
    /\ Returned(check_geodataframe(gdf, ref_gdf, opts, msgs))
    /\ pc' = "done"
    /\ UNCHANGED <<opts, actual_paths, expected_paths, idx, failures, hist,
                   values, ref_values>>

NextCheck == CheckGeodataframe

SpecCheck == InitCheck /\ [][NextCheck]_vars

---------------------------------------------------------------------------
(* check_parquet_file, check_parquet_files *)

\* what the files hold; the first cannot be read
Paths == <<"bad.parquet", "./none.parquet", "a.parquet">>

FileContent(path) ==
    IF path = "./none.parquet" THEN Empty ELSE Base(<<"a">>, "int64", 1)

\* os.path.normpath on the paths above
normpath(path) == IF path = "./none.parquet" THEN "none.parquet" ELSE path

\* line 466 reads parquet, a name bound nowhere, before the file is opened
default_parquet_loader(path) == [raised |-> "NameError", gdf |-> Empty]

\* a loader passed by the caller: reads the file or raises
custom_loader(path) ==
    IF path = "bad.parquet" THEN [raised |-> "OSError", gdf |-> Empty]
    ELSE [raised |-> "", gdf |-> FileContent(path)]

load_parquet(path, loader) ==
    IF loader = "None" THEN default_parquet_loader(path) ELSE custom_loader(path)

\* lines 310-322: precision is 6 and check_extra_cols is left unset
compare_loaded(actual_path, expected_path, o, log, ref, act) ==
    IF ref.raised # "" THEN Outcome(ref.raised, Null, log, Empty, Empty, "load", FALSE, <<>>)
    ELSE IF act.raised # "" THEN Outcome(act.raised, Null, log, Empty, Empty, "load", FALSE, <<>>)
    ELSE check_geodataframe(act.gdf, ref.gdf,
            [check_data |-> o.check_data,
             check_types |-> o.check_types,
             check_order |-> o.check_order,
             check_extra_cols |-> FNone,
             sortby |-> o.sortby,
             condition |-> o.condition,
             precision |-> DefaultPrecision,
             actual_path |-> actual_path,
             expected_path |-> expected_path,
             msgs |-> "given"], log)

\* lines 308-322: the expected file is loaded first
check_parquet_file(actual_path, expected_path, o, log) ==
    compare_loaded(actual_path, expected_path, o, log,
                   load_parquet(expected_path, o.loader),
                   load_parquet(actual_path, o.loader))

BatchOptions ==
    [check_data : {FNone},
     check_types : {FNone},
     check_order : {FNone},
     sortby : {FNone, FList(<<"a">>)},
     condition : {CondNone},
     loader : {"None", "custom"},
     msgs : {"None", "given"}]

\* the (actual, expected) path pairs of a batch of n files; the unreadable
\* file stands as expected only against itself, since the expected file is
\* loaded first and the actual one is then never opened
PathPairs(n) ==
    UNION {[1..k -> {<<Paths[i], Paths[j]>> : i \in DOMAIN Paths,
                                               j \in (DOMAIN Paths) \ {1}}
                    \cup {<<Paths[1], Paths[1]>>}] :
              k \in 0..n}

InitBatch ==
    /\ pc = "loop"
    /\ \E ps \in PathPairs(MaxPairs), tail \in {"", "actual", "expected"} :
          /\ actual_paths = [k \in 1..Len(ps) |-> ps[k][1]]
                            \o (IF tail = "actual" THEN <<"a.parquet">> ELSE <<>>)
          /\ expected_paths = [k \in 1..Len(ps) |-> ps[k][2]]
                            \o (IF tail = "expected" THEN <<"a.parquet">> ELSE <<>>)
    /\ opts \in BatchOptions
    /\ msgs = IF opts.msgs = "None" THEN Diffs ELSE EarlierLog
    /\ failures = 0
    /\ idx = 0
    /\ hist = <<>>
    /\ ret = NoRet
    /\ gdf = Empty
    /\ ref_gdf = Empty
    /\ values = <<>>
    /\ ref_values = <<>>

\* the loop as it would be were line 398 left out: a caught error is logged
\* and not counted
Accumulate_uncounted(actual_path, expected_path, r) ==
    /\ IF r.raised = ""
       THEN /\ msgs' = r.msgs
            /\ failures' = failures + r.n
       ELSE /\ msgs' = Append(r.msgs,
                   MsgNames("Error comparing",
                            <<normpath(actual_path), expected_path, r.raised>>))
            /\ failures' = failures
    /\ hist' = Append(hist, [raised |-> r.raised, n |-> r.n, phase |-> r.phase,
                             before |-> Len(msgs), inner |-> Len(r.msgs)])

\* lines 385-398: add the result of the pair, or catch what it raised
Accumulate(actual_path, expected_path, r) ==
    /\ IF r.raised = ""
       THEN /\ msgs' = r.msgs
            /\ failures' = failures + r.n
       ELSE /\ msgs' = Append(r.msgs,
                   MsgNames("Error comparing",
                            <<normpath(actual_path), expected_path, r.raised>>))
            /\ failures' = failures + 1
    /\ hist' = Append(hist, [raised |-> r.raised, n |-> r.n, phase |-> r.phase,
                             before |-> Len(msgs), inner |-> Len(r.msgs)])

\* lines 372-398: one turn of the loop over zip(actual_paths, expected_paths)
CheckParquetFilesPair ==
    /\ pc = "loop"
    /\ idx < Min(Len(actual_paths), Len(expected_paths))
    /\ Accumulate(actual_paths[idx + 1], expected_paths[idx + 1],
                  check_parquet_file(actual_paths[idx + 1], expected_paths[idx + 1],
                                     opts, msgs))
    /\ idx' = idx + 1
    /\ UNCHANGED <<pc, gdf, ref_gdf, opts, ret, actual_paths, expected_paths,
                   values, ref_values>>

\* line 399
CheckParquetFilesReturn ==
    /\ pc = "loop"
    /\ idx = Min(Len(actual_paths), Len(expected_paths))
    /\ pc' = "returned"
    /\ UNCHANGED <<gdf, ref_gdf, opts, msgs, ret, actual_paths, expected_paths,
                   idx, failures, hist, values, ref_values>>

NextBatch == CheckParquetFilesPair \/ CheckParquetFilesReturn

SpecBatch == InitBatch /\ [][NextBatch]_vars

---------------------------------------------------------------------------
(* The caller of differences: two columns of equal length, given row by row
   as agreeing or differing, with or without missing values *)

RowKinds == {"vv", "nn", "vw", "nv", "vn"}

\* every column pair of at most n rows
Patterns(kinds, n) == UNION {[1..k -> kinds] : k \in 0..n}

Repeat(k, n) == [i \in 1..n |-> k]

\* a run that reaches or passes the sampling window, between agreeing rows
LongPatterns ==
    {Repeat(k1, e) \o Repeat(k2, r) \o Repeat(k3, s) \o Repeat(k2, t) :
        k1 \in {"vv", "nn"}, e \in 0..1,
        k2 \in {"vw", "nv", "vn"}, r \in (limit - 1)..(limit + MaxTail),
        k3 \in {"vv", "nn"}, s \in 0..1, t \in 0..1}

ActualCell(k, i) == IF k \in {"nn", "nv"} THEN Null ELSE i * Scale + 4
ExpectedCell(k, i) ==
    IF k \in {"nn", "vn"} THEN Null
    ELSE IF k = "vv" THEN i * Scale + 4 ELSE i * Scale + 6

InitDiff ==
    /\ pc = "call"
    /\ \E p \in Patterns(RowKinds, MaxRows + 1) \cup LongPatterns,
          dt \in {"float64", "int64"} :
          /\ values = [dtype |-> "float64",
                       vals |-> [i \in 1..Len(p) |-> ActualCell(p[i], i)]]
          /\ ref_values =
                IF dt = "int64" /\ \A i \in 1..Len(p) : p[i] \in {"vv", "vw", "nv"}
                THEN [dtype |-> "int64",
                      vals |-> [i \in 1..Len(p) |->
                                  IF p[i] = "vv" THEN i * Scale ELSE (i + 1) * Scale]]
                ELSE [dtype |-> "float64",
                      vals |-> [i \in 1..Len(p) |-> ExpectedCell(p[i], i)]]
    /\ opts \in [precision : {Digits - 1, DefaultPrecision}]
    /\ msgs = <<>>
    /\ ret = Msg("")
    /\ gdf = Empty
    /\ ref_gdf = Empty
    /\ actual_paths = <<>>
    /\ expected_paths = <<>>
    /\ idx = 0
    /\ failures = 0
    /\ hist = <<>>

Differences ==
    /\ pc = "call"
    /\ ret' = differences("b", values, ref_values, opts.precision)
    /\ pc' = "done"
    /\ UNCHANGED <<gdf, ref_gdf, opts, msgs, actual_paths, expected_paths, idx,
                   failures, hist, values, ref_values>>

NextDiff == Differences

SpecDiff == InitDiff /\ [][NextDiff]_vars

---------------------------------------------------------------------------
(* What the claims speak of, stated on the arguments of the call *)

Done == pc = "done"
Returns == pc = "done" /\ ret.raised = ""

HasText(t) == \E i \in DOMAIN msgs : msgs[i].text = t
CountText(t) == Cardinality({i \in DOMAIN msgs : msgs[i].text = t})

NoMissingValues(d) ==
    \A i \in DOMAIN d.rows : \A c \in Range(d.cols) : ~isnull(d.rows[i][c])

TypeFields == Range(resolve_option_flag(opts.check_types, ref_gdf))
OrderFields == Range(resolve_option_flag(opts.check_order, ref_gdf))

MissingAxis == \E c \in TypeFields : ~HasCol(gdf, c)

ExtraAxis ==
    \E c \in Range(resolve_option_flag(opts.check_extra_cols, gdf)) : ~HasCol(ref_gdf, c)

WrongTypeAxis ==
    \E c \in TypeFields :
        HasCol(gdf, c) /\ HasCol(ref_gdf, c) /\ gdf.dtype[c] # ref_gdf.dtype[c]

WrongOrderAxis ==
    /\ opts.check_order.shape # "False"
    /\ ~MissingAxis
    /\ SelectSeq(gdf.cols, LAMBDA c : c \in OrderFields)
          # SelectSeq(ref_gdf.cols, LAMBDA c : c \in OrderFields)

SchemaFails == MissingAxis \/ ExtraAxis \/ WrongTypeAxis \/ WrongOrderAxis

\* the rows that the condition keeps, when it can be applied
Kept(d) ==
    IF opts.condition.kind = "None" THEN d.rows
    ELSE SelectSeq(d.rows, LAMBDA r : ~isnull(r[opts.condition.col])
                                      /\ r[opts.condition.col] > Scale)

ConditionApplies ==
    opts.condition.kind = "None"
    \/ (HasCol(gdf, opts.condition.col) /\ HasCol(ref_gdf, opts.condition.col))

Precision == IF opts.precision = Null THEN DefaultPrecision ELSE opts.precision

Rounded(d, row, c) ==
    IF d.dtype[c] = "float64" THEN round(row[c], Precision) ELSE row[c]

\* the value-check fields: check_data against expected, less the missing ones
DataFields ==
    {c \in Range(resolve_option_flag(opts.check_data, ref_gdf)) :
        ~(c \in TypeFields /\ ~HasCol(gdf, c))}

CellsAgree(c, i) ==
    LET x == Rounded(gdf, Kept(gdf)[i], c)
        y == Rounded(ref_gdf, Kept(ref_gdf)[i], c)
    IN  \/ isnull(x) /\ isnull(y)
        \/ ~isnull(x) /\ ~isnull(y) /\ x = y

LengthContentPassed ==
    /\ Len(Kept(gdf)) = Len(Kept(ref_gdf))
    /\ \A c \in DataFields :
          /\ gdf.dtype[c] = ref_gdf.dtype[c]
          /\ \A i \in 1..Len(Kept(gdf)) : CellsAgree(c, i)

---------------------------------------------------------------------------
(* C1: identity. For a dataset D without missing values and every option
   left at its default, check_geodataframe(D, D) returns failure count 0
   and an empty log, and does not raise. *)
C1_Identity ==
    (Done /\ gdf = ref_gdf /\ NoMissingValues(gdf) /\ opts = Defaults)
        => (ret.raised = "" /\ ret.n = 0 /\ msgs = <<>>)

(* C2: the verdict. A call that returns gives 0 or 1, and gives 0 exactly
   when the length/content check passed and none of the four schema axes
   (missing, extra, wrong types, wrong ordering) failed. *)
C2_Verdict ==
    Returns =>
        /\ ret.n \in {0, 1}
        /\ ret.n = 0 <=> (/\ LengthContentPassed
                          /\ ~MissingAxis
                          /\ ~ExtraAxis
                          /\ ~WrongTypeAxis
                          /\ ~WrongOrderAxis)

\* a call whose content check passed and that fails on the column order alone
C2_Witness ==
    /\ Returns
    /\ ret.n = 1
    /\ LengthContentPassed
    /\ WrongOrderAxis
    /\ len(gdf) > 0

(* C5: the inputs are never mutated. After check_geodataframe returns, the
   caller's actual and expected datasets hold the same rows in the same
   order as before the call, whatever the flags. *)
C5_InputsNeverMutated ==
    [][(pc = "call" /\ pc' = "done" /\ ret'.raised = "")
          => (gdf' = gdf /\ ref_gdf' = ref_gdf)]_vars

\* the itemized lines that follow "Column check failed." at position i
IsColumnLine(m) ==
    \/ m.text \in {"Missing columns:", "Extra columns:", "Wrong column type",
                   "Wrong column ordering: not enough columns",
                   "Wrong column ordering: found, expected",
                   "Wrong column ordering: mysterious difference, they appear to be the same!"}

(* C6: the schema phase never short-circuits. Whenever the schema check
   fails, the call still runs sort/filter, the length check and the content
   check: it returns 1, the log holds "Column check failed." with its
   itemized lines, and any "Length check failed." or "Contents check
   failed." line comes after them. *)
C6_NoShortCircuit ==
    (Done /\ SchemaFails) =>
        /\ ret.raised = ""
        /\ ret.n = 1
        /\ \E i \in DOMAIN msgs :
              /\ msgs[i].text = "Column check failed."
              /\ i < Len(msgs) /\ IsColumnLine(msgs[i + 1])
              /\ \A j \in DOMAIN msgs :
                    (\/ IsColumnLine(msgs[j])
                     \/ msgs[j].text = "Column check failed.")
                    => \A k \in DOMAIN msgs :
                          msgs[k].text \in {"Length check failed.",
                                            "Contents check failed."} => j < k

(* C7: row-count short-circuit. Whenever the filtered row counts differ the
   call returns 1, appends one "Length check failed." and one message citing
   both counts, and appends no "Contents check failed." and no "Column
   values differ" message. *)
C7_RowCountShortCircuit ==
    (Done /\ ConditionApplies /\ Len(Kept(gdf)) # Len(Kept(ref_gdf))) =>
        /\ ret.raised = ""
        /\ ret.n = 1
        /\ CountText("Length check failed.") = 1
        /\ \E i \in DOMAIN msgs :
              /\ msgs[i].text = "Found records, expected"
              /\ msgs[i].nums = <<Len(Kept(gdf)), Len(Kept(ref_gdf))>>
        /\ CountText("Found records, expected") = 1
        /\ ~HasText("Contents check failed.")
        /\ ~HasText("Column values differ:")

\* v and w agree before the Nth decimal digit and differ at it
DifferFromDigit(v, w, N) ==
    /\ v \div Pow10(Digits - N + 1) = w \div Pow10(Digits - N + 1)
    /\ v \div Pow10(Digits - N) # w \div Pow10(Digits - N)

\* actual and expected are alike but for the float column b, which differs
\* only from the Nth decimal digit onward
AlikeButFromDigit(N) ==
    /\ gdf.cols = ref_gdf.cols
    /\ gdf.dtype = ref_gdf.dtype
    /\ IsFloat(gdf, "b")
    /\ len(gdf) = len(ref_gdf)
    /\ NoMissingValues(gdf) /\ NoMissingValues(ref_gdf)
    /\ \A i \in DOMAIN gdf.rows : \A c \in Range(gdf.cols) \ {"b"} :
          gdf.rows[i][c] = ref_gdf.rows[i][c]
    /\ \A i \in DOMAIN gdf.rows :
          \/ gdf.rows[i]["b"] = ref_gdf.rows[i]["b"]
          \/ \E M \in N..Digits : DifferFromDigit(gdf.rows[i]["b"], ref_gdf.rows[i]["b"], M)
    /\ \E i \in DOMAIN gdf.rows :
          DifferFromDigit(gdf.rows[i]["b"], ref_gdf.rows[i]["b"], N)

(* C8: precision boundary. For two datasets alike but for one float column
   that differs only from the Nth decimal digit onward, the call returns
   (0, []) when precision = N-1, and 1 with "Contents check failed." when
   precision >= N. *)
C8_PrecisionBoundary ==
    \A N \in 1..Digits :
        (Done /\ AlikeButFromDigit(N) /\ opts = [Defaults EXCEPT !.precision = opts.precision])
        => /\ Precision = N - 1 => (ret.raised = "" /\ ret.n = 0 /\ msgs = <<>>)
           /\ Precision >= N => (/\ ret.raised = "" /\ ret.n = 1
                                 /\ HasText("Contents check failed."))

---------------------------------------------------------------------------
(* check_parquet_files *)

PairCount == Min(Len(actual_paths), Len(expected_paths))

Raising == {k \in DOMAIN hist : hist[k].raised # ""}
Failing == {k \in DOMAIN hist : hist[k].raised = "" /\ hist[k].n = 1}

\* where the pair k left the log when its turn ended
LogAfter(k) == IF k < Len(hist) THEN hist[k + 1].before ELSE Len(msgs)

(* C3: batch isolation. check_parquet_files takes every pair in order, up
   to the shorter list, and returns; a pair that raises adds exactly 1 to
   the total and a message naming both paths and the error class, and the
   pairs after it are still taken. The total is the number of pairs that
   returned 1 plus the number that raised. *)
C3_BatchIsolation ==
    /\ Len(hist) = idx
    /\ idx <= PairCount
    /\ pc = "returned" => idx = PairCount
    /\ (pc = "loop" /\ idx < PairCount) => ENABLED CheckParquetFilesPair
    /\ failures = Cardinality(Raising) + Cardinality(Failing)
    /\ \A k \in Raising :
          /\ LogAfter(k) = hist[k].inner + 1
          /\ msgs[LogAfter(k)].text = "Error comparing"
          /\ msgs[LogAfter(k)].names =
                <<normpath(actual_paths[k]), expected_paths[k], hist[k].raised>>

\* the first pair raised and the second was still compared and returned
C3_Witness ==
    /\ pc = "returned"
    /\ Len(hist) = 2
    /\ hist[1].raised # ""
    /\ hist[2].raised = ""
    /\ failures = 1

(* C4: no partial state in the batch. When a pair raises, the shared log
   grows for that pair by the single error diagnostic and nothing else: no
   message written by the aborted comparison remains. *)
C4_NoPartialLog ==
    \A k \in Raising : hist[k].inner = hist[k].before /\ LogAfter(k) = hist[k].before + 1

---------------------------------------------------------------------------
(* differences *)

RowCount == Len(values.vals)

\* unequal under the rule that two missing values are equal and a missing
\* value equals no concrete value
Unequal(i) ==
    LET x == values.vals[i + 1]
        y == ref_values.vals[i + 1]
    IN  ~(\/ (x = Null /\ y = Null)
          \/ (x # Null /\ y # Null /\ x = y))

UnequalRows == {i \in 0..(RowCount - 1) : Unequal(i)}

(* C9: null-aware first divergence. differences() reports "From row k"
   where k-1 is the smallest row at which the two values are unequal, two
   missing values at one row being equal and a missing value unequal to any
   concrete value; a row missing on both sides is never the anchor; k is
   1-based. *)
C9_FirstDivergence ==
    Done =>
        /\ UnequalRows # {} =>
              /\ ret.text = "From row"
              /\ ret.nums = <<SetMin(UnequalRows) + 1>>
        /\ ret.text = "From row" =>
              /\ Len(ret.nums) = 1
              /\ ret.nums[1] \in 1..RowCount
              /\ ~(isnull(At(values, ret.nums[1] - 1))
                   /\ isnull(At(ref_values, ret.nums[1] - 1)))

\* rows missing on both sides come first and are passed over
C9_Witness ==
    /\ Done
    /\ ret.text = "From row"
    /\ ret.nums[1] > 1
    /\ isnull(At(values, 0)) /\ isnull(At(ref_values, 0))
    /\ isnull(At(values, ret.nums[1] - 1)) # isnull(At(ref_values, ret.nums[1] - 1))

Anchor == ret.nums[1] - 1

\* the first row at or after the anchor, within the window, at which the
\* columns agree again, or the end of the window or of the column
Boundary ==
    LET stop == Min(Anchor + limit, RowCount)
        agree == {i \in Anchor..(stop - 1) : ~Unequal(i)}
    IN  IF agree = {} THEN stop ELSE SetMin(agree)

\* the divergent run goes on past the window
Truncated ==
    /\ Boundary = Anchor + limit
    /\ Boundary < RowCount
    /\ Unequal(Boundary)

SampleOf(col, items) ==
    /\ Len(items) = Boundary - Anchor
    /\ \A k \in 1..Len(items) :
          items[k] = Render(At(col, Anchor + k - 1), col.dtype, opts.precision)

(* C10: difference sampling window. The two samples hold the values of the
   rows [anchor, boundary); when the divergent run goes on past the 10-row
   window the sample has exactly 10 values and the marker " ..." is
   appended; when the run is not truncated no marker is appended. *)
C10_SamplingWindow ==
    (Done /\ ret.text = "From row") =>
        /\ SampleOf(values, ret.vals)
        /\ SampleOf(ref_values, ret.refvals)
        /\ Truncated => (/\ Len(ret.vals) = limit
                         /\ Len(ret.refvals) = limit
                         /\ ret.dots = <<TRUE, TRUE>>)
        /\ ~Truncated => ret.dots = <<FALSE, FALSE>>

---------------------------------------------------------------------------
(* check_geodataframe and check_parquet_files together: a caller of either *)

InitAll == InitCheck \/ InitBatch

NextAll == NextCheck \/ NextBatch

SpecAll == InitAll /\ [][NextAll]_vars

---------------------------------------------------------------------------
(* Field selection, the log, and the phases that can raise *)

\* actual and expected have the same columns in the same order and as many
\* rows, and agree in type and value on every column of S
AgreeOn(S) ==
    /\ gdf.cols = ref_gdf.cols
    /\ len(gdf) = len(ref_gdf)
    /\ \A c \in Range(S) :
          /\ HasCol(gdf, c)
          /\ gdf.dtype[c] = ref_gdf.dtype[c]
          /\ \A i \in DOMAIN gdf.rows :
                /\ ~isnull(gdf.rows[i][c])
                /\ gdf.rows[i][c] = ref_gdf.rows[i][c]

(* C11: field selection. For two datasets with the same column names, column
   order and row count, with check_types and check_data both the list S and
   the other options at their defaults, the call returns (0, []) whenever
   the columns of S agree in type and value, whatever the other columns
   hold. *)
C11_FieldSelection ==
    \A S \in {<<"a">>} :
        (/\ Done
         /\ opts = [Defaults EXCEPT !.check_types = FList(S), !.check_data = FList(S)]
         /\ AgreeOn(S))
        => (ret.raised = "" /\ ret.n = 0 /\ msgs = <<>>)

\* the log the caller held when the call began
LogBefore == IF opts.msgs = "None" THEN Diffs ELSE EarlierLog

IsPrefix(s, t) == Len(s) <= Len(t) /\ SubSeq(t, 1, Len(s)) = s

(* C12: the log is append-only. Through any sequence of comparisons of
   check_geodataframe or check_parquet_files the messages already in the
   log stay, unchanged and in order, as a prefix of the log; the log starts
   empty when none is supplied and as the supplied log otherwise. *)
C12_AppendOnly ==
    /\ [](IsPrefix(LogBefore, msgs))
    /\ [][IsPrefix(msgs, msgs')]_vars

\* a batch on a supplied log in which two pairs returned and wrote messages
C12_Witness ==
    /\ pc = "returned"
    /\ opts.msgs = "given"
    /\ Len(hist) = 2
    /\ \A k \in 1..2 : hist[k].raised = "" /\ hist[k].inner > hist[k].before
    /\ Len(msgs) > Len(EarlierLog) + 2

\* the column subsequences that line 144-145 compare
OrderSeq(d) == SelectSeq(d.cols, LAMBDA c : c \in OrderFields)

FirstMismatch ==
    SetMin({i \in 1..Len(OrderSeq(gdf)) :
               i > Len(OrderSeq(ref_gdf)) \/ OrderSeq(gdf)[i] # OrderSeq(ref_gdf)[i]}
           \cup {Len(OrderSeq(gdf)) + 1})

(* C13: the fallback ordering diagnostic is unreachable. Whenever a call
   that returns recorded wrong ordering, the log holds a "Wrong column
   ordering:" message that says "not enough columns" or "found X, expected
   Y" for the first mismatched pair of the order-restricted column
   subsequences, and never the "mysterious difference" explanation. *)
C13_NoMysteriousOrdering ==
    (Returns /\ WrongOrderAxis) =>
        /\ ~HasText("Wrong column ordering: mysterious difference, they appear to be the same!")
        /\ \E i \in DOMAIN msgs :
              \/ msgs[i].text = "Wrong column ordering: not enough columns"
              \/ /\ msgs[i].text = "Wrong column ordering: found, expected"
                 /\ FirstMismatch <= Len(OrderSeq(gdf))
                 /\ FirstMismatch <= Len(OrderSeq(ref_gdf))
                 /\ msgs[i].names = <<OrderSeq(gdf)[FirstMismatch],
                                      OrderSeq(ref_gdf)[FirstMismatch]>>

SortFields == Range(resolve_option_flag(opts.sortby, ref_gdf))

\* sortby is given and names a column that the schema phase flags missing
SortOnMissing ==
    /\ Truthy(opts.sortby)
    /\ \E c \in SortFields : c \in TypeFields /\ ~HasCol(gdf, c)

(* C14: sorting on a missing column is reported, not raised. When sortby
   names a column flagged missing, the call does not raise, the log holds a
   diagnostic about the skipped sort, and the call reaches its return. *)
C14_SortOnMissingReported ==
    (Done /\ SortOnMissing /\ ConditionApplies) =>
        /\ ret.raised = ""
        /\ ret.phase = "done"
        /\ HasText("Cannot sort on missing columns")

\* check_data names columns of the expected dataset only
DataOfExpected ==
    \A c \in Range(resolve_option_flag(opts.check_data, ref_gdf)) : HasCol(ref_gdf, c)

(* C15: the content phase reads only columns that exist. For datasets with
   equal (filtered) row counts and a check_data that names columns of
   expected, in a call that reaches the content phase, every field of
   check_data resolved against expected, less the columns flagged missing,
   is a column of actual, and the projection raises nothing. *)
C15_ContentProjection ==
    (/\ Done
     /\ ret.phase \in {"content", "done"}
     /\ DataOfExpected
     /\ Len(Kept(gdf)) = Len(Kept(ref_gdf)))
    => /\ \A c \in DataFields : HasCol(gdf, c)
       /\ ret.raised = ""

(* C16: count and log agree. A call of check_geodataframe that returns
   gives 0 exactly when it appended no message; in a batch every pair that
   returned gave 0 exactly when it appended nothing, and a batch on a fresh
   log returns total 0 exactly when its log is empty. *)
C16_CountAndLogAgree ==
    /\ Returns => (ret.n = 0 <=> msgs = LogBefore)
    /\ \A k \in DOMAIN hist :
          hist[k].raised = "" => (hist[k].n = 0 <=> hist[k].inner = hist[k].before)
    /\ (pc = "returned" /\ opts.msgs = "None") => (failures = 0 <=> msgs = <<>>)

\* a batch on a fresh log: the first pair returned 0 and wrote nothing, the
\* second returned 1 and wrote its messages
C16_Witness ==
    /\ pc = "returned"
    /\ opts.msgs = "None"
    /\ Len(hist) = 2
    /\ hist[1].raised = "" /\ hist[1].n = 0
    /\ hist[2].raised = "" /\ hist[2].n = 1
    /\ failures = 1
    /\ msgs # <<>>

=============================================================================
